---- MODULE Spec2Model ----
(***************************************************************************)
(* Model of python/ray/tune/stopper.py: the Stopper base class, the        *)
(* NoopStopper and FunctionStopper adapters and the EarlyStopping policy.  *)
(*                                                                         *)
(* Spec         : one EarlyStopping instance driven by __call__/stop_all.  *)
(* SpecMirror   : a mode='min' and a mode='max' EarlyStopping instance fed *)
(*                mirrored metric values.                                  *)
(* SpecAdapters : Stopper, NoopStopper and FunctionStopper.                *)
(* SpecConc     : one caller per trial, the statements of __call__ of      *)
(*                different trials interleaved.                            *)
(***************************************************************************)
EXTENDS Integers, Sequences, FiniteSets, TLC

\* ---------------------------------------------------------------- bounds
MaxVal == 1             \* raw metric values range over 0..MaxVal
MaxPatience == 2        \* patience ranges over 1..MaxPatience
MaxDelta == 1           \* delta ranges over 0..MaxDelta
MaxCalls == 3           \* __call__ invocations that return, per behaviour

Trials == {"t1", "t2"}
Values == 0..MaxVal
Keys == {"val_loss", "acc"}
Modes == {"min", "max"}

\* A result is a mapping from metric names to values; the results reported
\* here carry at most one metric.
Results ==
    UNION {[D -> Values] : D \in {S \in SUBSET Keys : Cardinality(S) <= 1}}

\* Candidate objects handed to FunctionStopper: whether the object is
\* callable, whether its type is a Stopper subclass, whether it has a
\* stop_all attribute, and what it returns when called.  An instance of a
\* Stopper subclass is callable and has stop_all (stopper.py:29-35).
Fns == {f \in [callable : BOOLEAN, isStopper : BOOLEAN,
               hasStopAll : BOOLEAN, ret : BOOLEAN] :
            f.isStopper => (f.callable /\ f.hasStopAll)}

VARIABLES
    es,       \* the EarlyStopping instance (its attributes)
    mirror,   \* a second EarlyStopping instance, same settings, other mode
    hist,     \* per trial: the scores reported and the decisions returned
    ncalls,   \* number of __call__ invocations that returned
    fs,       \* <<>> or <<the FunctionStopper instance>>
    last,     \* the last operation invoked and its outcome
    mlast,    \* the outcome of the last operation on the mirror instance
    callers   \* per trial: where its caller is inside __call__, its locals

vars == <<es, mirror, hist, ncalls, fs, last, mlast, callers>>

\* ------------------------------------------------------------ helpers
PutMut(f, k, v) == [x \in {k} |-> v]
Put(f, k, v) == [x \in (DOMAIN f) \cup {k} |-> IF x = k THEN v ELSE f[x]]

NoResult == [x \in {} |-> 0]

\* What the caller of an operation observes: the exception raised ("" when
\* the operation returned), the value returned, the lines printed; with the
\* operation and the arguments it was given (fn: <<>> or <<the object>>).
Outcome(op, trial, result, fn, exc, ret, printed) ==
    [op |-> op, trial |-> trial, result |-> result, fn |-> fn, exc |-> exc,
     ret |-> ret, printed |-> printed]

NoOutcome == Outcome("init", "", NoResult, <<>>, "", FALSE, <<>>)

\* ------------------------------------------------------------ EarlyStopping
\* EarlyStopping.__init__
EarlyStopping_init(patience, verbose, delta, monitor, mode) ==
    [patience |-> patience, verbose |-> verbose, monitor |-> monitor,
     mode |-> mode, counter |-> NoResult, best_score |-> NoResult,
     early_stop |-> [x \in {} |-> FALSE], delta |-> delta]

\* result[self.monitor] raises KeyError when the key is absent
HasMetricMut(self, result) == TRUE
HasMetric(self, result) == self.monitor \in DOMAIN result

\* the value read for a result (mutant: a missing key defaults to 0)
Metric(self, result) ==
    IF self.monitor \in DOMAIN result THEN result[self.monitor] ELSE 0

\* lines 97-100: the normalized score
ScoreMut(self, result) == -Metric(self, result)
Score(self, result) ==
    IF self.mode = "min" THEN -Metric(self, result) ELSE Metric(self, result)

\* line 103
NoImprovementInv(self, trial_id, score) ==
    score >= self.best_score[trial_id] + self.delta
NoImprovementMut(self, trial_id, score) ==
    score < self.best_score[trial_id] + self.delta
NoImprovement(self, trial_id, score) ==
    score <= self.best_score[trial_id] + self.delta

\* line 106
PatienceReachedMut(self, c) == c > self.patience
PatienceReached(self, c) == c >= self.patience

\* lines 104-107: no sufficient improvement
StallMut(self, trial_id) ==
    [self EXCEPT !.counter[trial_id] = 1,
                 !.early_stop[trial_id] =
                     IF PatienceReached(self, 1) THEN TRUE ELSE @]
StallAll(self, trial_id) ==
    LET c == self.counter[trial_id] + 1 IN
    [self EXCEPT !.counter = [t \in DOMAIN @ |-> @[t] + 1],
                 !.early_stop[trial_id] =
                     IF PatienceReached(self, c) THEN TRUE ELSE @]
Stall(self, trial_id) ==
    LET c == self.counter[trial_id] + 1 IN
    [self EXCEPT !.counter[trial_id] = c,
                 !.early_stop[trial_id] =
                     IF PatienceReached(self, c) THEN TRUE ELSE @]

\* line 105: the line printed by a stalling call
StallLine(self, trial_id) ==
    <<self.counter[trial_id] + 1, self.patience>>

\* lines 109-110: sufficient improvement
ImproveKeepBest(self, trial_id, score) ==
    [self EXCEPT !.counter[trial_id] = 0]
ImproveMut(self, trial_id, score) ==
    [self EXCEPT !.best_score[trial_id] = score,
                 !.counter[trial_id] = 0,
                 !.early_stop[trial_id] = FALSE]
Improve(self, trial_id, score) ==
    [self EXCEPT !.best_score[trial_id] = score,
                 !.counter[trial_id] = 0]

\* lines 112-114: first result of a trial
FirstResultMut(self, trial_id, score) ==
    [self EXCEPT !.counter = Put(@, trial_id, 1),
                 !.best_score = Put(@, trial_id, score),
                 !.early_stop = Put(@, trial_id, FALSE)]
FirstResult(self, trial_id, score) ==
    [self EXCEPT !.counter = Put(@, trial_id, 0),
                 !.best_score = Put(@, trial_id, score),
                 !.early_stop = Put(@, trial_id, FALSE)]

\* (mutant: the entry is registered before the metric is read)
EarlyStopping_callMut(self, trial_id, result) ==
    IF self.monitor \notin DOMAIN result
    THEN [self |-> [self EXCEPT !.counter = Put(@, trial_id, 0)],
          exc |-> "KeyError", ret |-> FALSE, printed |-> <<>>]
    ELSE
      LET score == Score(self, result)
          tracked == trial_id \in DOMAIN self.best_score
          stall == tracked /\ NoImprovement(self, trial_id, score)
          new == IF tracked
                 THEN IF stall THEN Stall(self, trial_id)
                               ELSE Improve(self, trial_id, score)
                 ELSE FirstResult(self, trial_id, score)
      IN [self |-> new, exc |-> "", ret |-> new.early_stop[trial_id],
          printed |-> IF stall THEN <<StallLine(self, trial_id)>> ELSE <<>>]

\* EarlyStopping.__call__: the instance afterwards, the exception raised
\* ("" when none), the value returned and the lines printed.
EarlyStopping_call(self, trial_id, result) ==
    IF ~HasMetric(self, result)
    THEN [self |-> self, exc |-> "KeyError", ret |-> FALSE, printed |-> <<>>]
    ELSE
      LET score == Score(self, result)
          tracked == trial_id \in DOMAIN self.best_score
          stall == tracked /\ NoImprovement(self, trial_id, score)
          new == IF tracked
                 THEN IF stall THEN Stall(self, trial_id)
                               ELSE Improve(self, trial_id, score)
                 ELSE FirstResult(self, trial_id, score)
      IN [self |-> new, exc |-> "", ret |-> new.early_stop[trial_id],
          printed |-> IF stall THEN <<StallLine(self, trial_id)>> ELSE <<>>]

\* EarlyStopping.stop_all
EarlyStopping_stop_allMut(self) ==
    \E t \in DOMAIN self.early_stop : self.early_stop[t]
EarlyStopping_stop_all(self) == FALSE

\* a caller that is not inside __call__
Idle == [pc |-> "idle", result |-> NoResult, score |-> 0, tmp |-> 0]

\* ------------------------------------------------------------ initial state
OtherMode(m) == IF m = "min" THEN "max" ELSE "min"

Init ==
    /\ \E p \in 1..MaxPatience, v \in BOOLEAN, d \in 0..MaxDelta,
          k \in Keys, m \in Modes :
          /\ es = EarlyStopping_init(p, v, d, k, m)
          /\ mirror = EarlyStopping_init(p, v, d, k, OtherMode(m))
    /\ hist = [t \in Trials |-> <<>>]
    /\ ncalls = 0
    /\ fs = <<>>
    /\ last = NoOutcome
    /\ mlast = NoOutcome
    /\ callers = [t \in Trials |-> Idle]

\* ------------------------------------------------------------ actions (Spec)
\* the trial runner reports a result for a trial
ShouldStopTrial(trial_id, result) ==
    LET r == EarlyStopping_call(es, trial_id, result) IN
    /\ r.exc = "" => ncalls < MaxCalls
    /\ es' = r.self
    /\ ncalls' = IF r.exc = "" THEN ncalls + 1 ELSE ncalls
    /\ hist' = IF r.exc = ""
               THEN [hist EXCEPT ![trial_id] =
                        Append(@, [score |-> Score(es, result),
                                   ret |-> r.ret])]
               ELSE hist
    /\ last' = Outcome("call", trial_id, result, <<>>, r.exc, r.ret, r.printed)
    /\ UNCHANGED <<mirror, fs, mlast, callers>>

\* the trial runner asks whether to stop the experiment
ShouldStopAll ==
    /\ last' = Outcome("stop_all", "", NoResult, <<>>, "",
                       EarlyStopping_stop_all(es), <<>>)
    /\ UNCHANGED <<es, mirror, hist, ncalls, fs, mlast, callers>>

Next ==
    \/ \E t \in Trials, r \in Results : ShouldStopTrial(t, r)
    \/ ShouldStopAll

Spec == Init /\ [][Next]_vars

\* ------------------------------------------------------ actions (SpecMirror)
Negated(result) == [k \in DOMAIN result |-> -result[k]]

\* the same trial reports a result to es and the mirrored result to mirror
MirroredCall(trial_id, result) ==
    LET r == EarlyStopping_call(es, trial_id, result)
        m == EarlyStopping_call(mirror, trial_id, Negated(result)) IN
    /\ r.exc = "" => ncalls < MaxCalls
    /\ es' = r.self
    /\ mirror' = m.self
    /\ ncalls' = IF r.exc = "" THEN ncalls + 1 ELSE ncalls
    /\ hist' = IF r.exc = ""
               THEN [hist EXCEPT ![trial_id] =
                        Append(@, [score |-> Score(es, result),
                                   ret |-> r.ret])]
               ELSE hist
    /\ last' = Outcome("call", trial_id, result, <<>>, r.exc, r.ret, r.printed)
    /\ mlast' = Outcome("call", trial_id, Negated(result), <<>>, m.exc, m.ret,
                        m.printed)
    /\ UNCHANGED <<fs, callers>>

NextMirror == \E t \in Trials, r \in Results : MirroredCall(t, r)

SpecMirror == Init /\ [][NextMirror]_vars

\* ---------------------------------------------------- adapters (SpecAdapters)
\* Stopper.__call__ and Stopper.stop_all
Stopper_call == [exc |-> "NotImplementedError", ret |-> FALSE]
Stopper_stop_allMut == [exc |-> "", ret |-> FALSE]
Stopper_stop_all == [exc |-> "NotImplementedError", ret |-> FALSE]

\* NoopStopper.__call__ and NoopStopper.stop_all
NoopStopper_call == FALSE
NoopStopper_stop_all == FALSE

\* FunctionStopper.__init__
FunctionStopper_init(function) == [_fn |-> function]

\* FunctionStopper.__call__: calling an object that is not callable raises
FunctionStopper_call(self) ==
    IF self._fn.callable THEN [exc |-> "", ret |-> self._fn.ret]
                         ELSE [exc |-> "TypeError", ret |-> FALSE]

\* FunctionStopper.stop_all
FunctionStopper_stop_all == FALSE

\* FunctionStopper.is_valid_function
is_valid_functionMut(fn) ==
    [exc |-> "", ret |-> fn.callable /\ ~fn.isStopper]
is_valid_function(fn) ==
    LET is_function == fn.callable /\ ~fn.isStopper IN
    IF is_function /\ fn.hasStopAll
    THEN [exc |-> "ValueError", ret |-> FALSE]
    ELSE [exc |-> "", ret |-> is_function]

\* defaults of EarlyStopping.__init__
DefaultPatience == 7
DefaultDelta == 0

InitAdapters ==
    /\ es = EarlyStopping_init(DefaultPatience, FALSE, DefaultDelta,
                               "val_loss", "min")
    /\ mirror = es
    /\ hist = [t \in Trials |-> <<>>]
    /\ ncalls = 0
    /\ fs = <<>>
    /\ last = NoOutcome
    /\ mlast = NoOutcome
    /\ callers = [t \in Trials |-> Idle]

StopperCall(trial_id, result) ==
    /\ last' = Outcome("Stopper.call", trial_id, result, <<>>,
                       Stopper_call.exc, Stopper_call.ret, <<>>)
    /\ UNCHANGED <<es, mirror, hist, ncalls, fs, mlast, callers>>

StopperStopAll ==
    /\ last' = Outcome("Stopper.stop_all", "", NoResult, <<>>,
                       Stopper_stop_all.exc, Stopper_stop_all.ret, <<>>)
    /\ UNCHANGED <<es, mirror, hist, ncalls, fs, mlast, callers>>

NoopCall(trial_id, result) ==
    /\ last' = Outcome("NoopStopper.call", trial_id, result, <<>>, "",
                       NoopStopper_call, <<>>)
    /\ UNCHANGED <<es, mirror, hist, ncalls, fs, mlast, callers>>

NoopStopAll ==
    /\ last' = Outcome("NoopStopper.stop_all", "", NoResult, <<>>, "",
                       NoopStopper_stop_all, <<>>)
    /\ UNCHANGED <<es, mirror, hist, ncalls, fs, mlast, callers>>

FunctionStopperInit(fn) ==
    /\ fs' = <<FunctionStopper_init(fn)>>
    /\ last' = Outcome("FunctionStopper.init", "", NoResult, <<fn>>, "",
                       FALSE, <<>>)
    /\ UNCHANGED <<es, mirror, hist, ncalls, mlast, callers>>

FunctionStopperCall(trial_id, result) ==
    /\ fs # <<>>
    /\ LET r == FunctionStopper_call(fs[1]) IN
       last' = Outcome("FunctionStopper.call", trial_id, result,
                       <<fs[1]._fn>>, r.exc, r.ret, <<>>)
    /\ UNCHANGED <<es, mirror, hist, ncalls, fs, mlast, callers>>

FunctionStopperStopAll ==
    /\ fs # <<>>
    /\ last' = Outcome("FunctionStopper.stop_all", "", NoResult, <<>>, "",
                       FunctionStopper_stop_all, <<>>)
    /\ UNCHANGED <<es, mirror, hist, ncalls, fs, mlast, callers>>

IsValidFunction(fn) ==
    /\ LET r == is_valid_function(fn) IN
       last' = Outcome("is_valid_function", "", NoResult, <<fn>>, r.exc,
                       r.ret, <<>>)
    /\ UNCHANGED <<es, mirror, hist, ncalls, fs, mlast, callers>>

NextAdapters ==
    \/ \E t \in Trials, r \in Results : StopperCall(t, r)
    \/ StopperStopAll
    \/ \E t \in Trials, r \in Results : NoopCall(t, r)
    \/ NoopStopAll
    \/ \E fn \in Fns : FunctionStopperInit(fn)
    \/ \E t \in Trials, r \in Results : FunctionStopperCall(t, r)
    \/ FunctionStopperStopAll
    \/ \E fn \in Fns : IsValidFunction(fn)

SpecAdapters == InitAdapters /\ [][NextAdapters]_vars

\* -------------------------------------------------------- actions (SpecConc)
\* Each trial has one caller, which delivers the trial's results in order.
\* The callers run __call__ concurrently: a step is one statement's read or
\* write of an attribute dict; a dict lookup, membership test or item
\* assignment is one step (the interpreter runs each as a whole).

\* d[k] = v on a dict shared by the callers
SetItemMut(d, k, v) == [x \in {k} |-> v]
SetItem(d, k, v) == Put(d, k, v)

Goto(t, label) == callers' = [callers EXCEPT ![t].pc = label]

ConcFrame == UNCHANGED <<mirror, fs, last, mlast>>

\* the caller of trial t enters __call__ with a result
Enter(t, result) ==
    /\ callers[t].pc = "idle"
    /\ ncalls < MaxCalls
    /\ ncalls' = ncalls + 1
    /\ callers' = [callers EXCEPT ![t] = [Idle EXCEPT !.pc = "score",
                                                       !.result = result]]
    /\ UNCHANGED <<es, hist>> /\ ConcFrame

\* lines 97-100: a result without the metric raises and the call ends
ReadScore(t) ==
    /\ callers[t].pc = "score"
    /\ callers' = [callers EXCEPT ![t] =
          IF HasMetric(es, callers[t].result)
          THEN [pc |-> "test", result |-> callers[t].result,
                score |-> Score(es, callers[t].result), tmp |-> 0]
          ELSE Idle]
    /\ UNCHANGED <<es, hist, ncalls>> /\ ConcFrame

\* line 102
TestTracked(t) ==
    /\ callers[t].pc = "test"
    /\ Goto(t, IF t \in DOMAIN es.best_score THEN "cmp" ELSE "init_counter")
    /\ UNCHANGED <<es, hist, ncalls>> /\ ConcFrame

\* line 103
Compare(t) ==
    /\ callers[t].pc = "cmp"
    /\ Goto(t, IF NoImprovement(es, t, callers[t].score) THEN "ld_counter"
                                                          ELSE "st_best")
    /\ UNCHANGED <<es, hist, ncalls>> /\ ConcFrame

\* line 104: self.counter[trial_id] += 1 reads the item ...
LoadCounter(t) ==
    /\ callers[t].pc = "ld_counter"
    /\ callers' = [callers EXCEPT ![t].pc = "st_counter",
                                  ![t].tmp = es.counter[t]]
    /\ UNCHANGED <<es, hist, ncalls>> /\ ConcFrame

\* ... and then stores it
StoreCounter(t) ==
    /\ callers[t].pc = "st_counter"
    /\ es' = [es EXCEPT !.counter = SetItem(@, t, callers[t].tmp + 1)]
    /\ Goto(t, "chk")
    /\ UNCHANGED <<hist, ncalls>> /\ ConcFrame

\* line 106
CheckPatience(t) ==
    /\ callers[t].pc = "chk"
    /\ Goto(t, IF PatienceReached(es, es.counter[t]) THEN "st_stop" ELSE "ret")
    /\ UNCHANGED <<es, hist, ncalls>> /\ ConcFrame

\* line 107
StoreStop(t) ==
    /\ callers[t].pc = "st_stop"
    /\ es' = [es EXCEPT !.early_stop = SetItem(@, t, TRUE)]
    /\ Goto(t, "ret")
    /\ UNCHANGED <<hist, ncalls>> /\ ConcFrame

\* line 109
StoreBest(t) ==
    /\ callers[t].pc = "st_best"
    /\ es' = [es EXCEPT !.best_score = SetItem(@, t, callers[t].score)]
    /\ Goto(t, "rst_counter")
    /\ UNCHANGED <<hist, ncalls>> /\ ConcFrame

\* line 110
ResetCounter(t) ==
    /\ callers[t].pc = "rst_counter"
    /\ es' = [es EXCEPT !.counter = SetItem(@, t, 0)]
    /\ Goto(t, "ret")
    /\ UNCHANGED <<hist, ncalls>> /\ ConcFrame

\* line 112
InitCounter(t) ==
    /\ callers[t].pc = "init_counter"
    /\ es' = [es EXCEPT !.counter = SetItem(@, t, 0)]
    /\ Goto(t, "init_best")
    /\ UNCHANGED <<hist, ncalls>> /\ ConcFrame

\* line 113
InitBest(t) ==
    /\ callers[t].pc = "init_best"
    /\ es' = [es EXCEPT !.best_score = SetItem(@, t, callers[t].score)]
    /\ Goto(t, "init_stop")
    /\ UNCHANGED <<hist, ncalls>> /\ ConcFrame

\* line 114
InitStop(t) ==
    /\ callers[t].pc = "init_stop"
    /\ es' = [es EXCEPT !.early_stop = SetItem(@, t, FALSE)]
    /\ Goto(t, "ret")
    /\ UNCHANGED <<hist, ncalls>> /\ ConcFrame

\* line 116
Return(t) ==
    /\ callers[t].pc = "ret"
    /\ t \in DOMAIN es.early_stop
    /\ hist' = [hist EXCEPT ![t] = Append(@, [score |-> callers[t].score,
                                              ret |-> es.early_stop[t]])]
    /\ callers' = [callers EXCEPT ![t] = Idle]
    /\ UNCHANGED <<es, ncalls>> /\ ConcFrame

\* the defaults of verbose and monitor; patience, delta and mode vary
InitConc ==
    /\ \E p \in 1..MaxPatience, d \in 0..MaxDelta, m \in Modes :
          /\ es = EarlyStopping_init(p, FALSE, d, "val_loss", m)
          /\ mirror = es
    /\ hist = [t \in Trials |-> <<>>]
    /\ ncalls = 0
    /\ fs = <<>>
    /\ last = NoOutcome
    /\ mlast = NoOutcome
    /\ callers = [t \in Trials |-> Idle]

NextConc ==
    \/ \E t \in Trials, r \in Results : Enter(t, r)
    \/ \E t \in Trials : ReadScore(t)
    \/ \E t \in Trials : TestTracked(t)
    \/ \E t \in Trials : Compare(t)
    \/ \E t \in Trials : LoadCounter(t)
    \/ \E t \in Trials : StoreCounter(t)
    \/ \E t \in Trials : CheckPatience(t)
    \/ \E t \in Trials : StoreStop(t)
    \/ \E t \in Trials : StoreBest(t)
    \/ \E t \in Trials : ResetCounter(t)
    \/ \E t \in Trials : InitCounter(t)
    \/ \E t \in Trials : InitBest(t)
    \/ \E t \in Trials : InitStop(t)
    \/ \E t \in Trials : Return(t)

SpecConc == InitConc /\ [][NextConc]_vars

\* ================================================================ properties
\* the normalized score of a raw metric value, as the data model states it
Normalized(mode, raw) == IF mode = "min" THEN -raw ELSE raw

\* the step just taken was a __call__ for trial t carrying the metric
CalledWith(t) ==
    /\ last'.op = "call"
    /\ last'.trial = t
    /\ es.monitor \in DOMAIN last'.result

Tracked(t) == t \in DOMAIN es.best_score

\* the results 2..k+1 of trial t did not improve on its first result
StallRun(t, k) ==
    /\ k + 1 <= Len(hist[t])
    /\ \A j \in 2..(k + 1) : hist[t][j].score <= hist[t][1].score + es.delta

\* C1: after the first result of a trial, a run of patience consecutive
\* non-improving results returns true on exactly the last result of the run
\* and false on each result before it.
C1_StopOnPatienceThStall ==
    \A t \in Trials : \A k \in 1..es.patience :
        StallRun(t, k) => (hist[t][k + 1].ret = (k = es.patience))

C1_Witness ==
    \E t \in Trials :
        /\ es.patience >= 2
        /\ StallRun(t, es.patience)
        /\ hist[t][es.patience + 1].ret
        /\ ~hist[t][es.patience].ret

\* C2: the first call for a trial with no entry, with a result carrying the
\* monitored metric, returns false and creates the entry with best_score the
\* normalized score, counter 0 and early_stop false.
C2_FirstResultIsBaseline ==
    [][\A t \in Trials :
         (~Tracked(t) /\ CalledWith(t)) =>
            /\ last'.exc = ""
            /\ last'.ret = FALSE
            /\ t \in DOMAIN es'.best_score
            /\ t \in DOMAIN es'.counter
            /\ t \in DOMAIN es'.early_stop
            /\ es'.best_score[t] =
                  Normalized(es.mode, last'.result[es.monitor])
            /\ es'.counter[t] = 0
            /\ es'.early_stop[t] = FALSE]_vars

C2_Witness ==
    /\ last.op = "call"
    /\ last.exc = ""
    /\ Len(hist[last.trial]) = 1
    /\ es.mode = "min"
    /\ es.best_score[last.trial] = -1
    /\ \E t \in Trials : t # last.trial /\ Tracked(t)

\* C3: once early_stop is true for a trial no later call (for any trial)
\* sets it back to false, and every later call for that trial that returns
\* returns true.
C3_StoppedIsLatched ==
    [][\A t \in Trials :
         (Tracked(t) /\ es.early_stop[t]) =>
            /\ t \in DOMAIN es'.early_stop
            /\ es'.early_stop[t]
            /\ (last'.op = "call" /\ last'.trial = t /\ last'.exc = "")
                  => last'.ret]_vars

\* a stopped trial reported an improving result and was told to stop again
C3_Witness ==
    /\ last.op = "call"
    /\ last.exc = ""
    /\ last.ret
    /\ Len(hist[last.trial]) >= 3
    /\ hist[last.trial][Len(hist[last.trial]) - 1].ret
    /\ es.counter[last.trial] = 0

\* C4: once a trial is stopped, further calls for it leave its best_score
\* and counter as they were.
C4_StoppedShortCircuits ==
    [][\A t \in Trials :
         (Tracked(t) /\ es.early_stop[t]) =>
            /\ es'.best_score[t] = es.best_score[t]
            /\ es'.counter[t] = es.counter[t]]_vars

\* C5: for a tracked trial that is not stopped, a score strictly above
\* best_score + delta becomes the best_score, resets counter to 0, leaves
\* early_stop false and returns false; a score equal to best_score + delta
\* is not an improvement.
C5_ImprovementResets ==
    [][\A t \in Trials :
         (Tracked(t) /\ ~es.early_stop[t] /\ CalledWith(t)) =>
            LET score == Normalized(es.mode, last'.result[es.monitor]) IN
            /\ score > es.best_score[t] + es.delta =>
                  /\ es'.best_score[t] = score
                  /\ es'.counter[t] = 0
                  /\ es'.early_stop[t] = FALSE
                  /\ last'.exc = ""
                  /\ last'.ret = FALSE
            /\ score = es.best_score[t] + es.delta =>
                  /\ es'.best_score[t] = es.best_score[t]
                  /\ es'.counter[t] = es.counter[t] + 1]_vars

\* a trial stalled once, then improved
C5_Witness ==
    /\ last.op = "call"
    /\ last.exc = ""
    /\ ~last.ret
    /\ Len(hist[last.trial]) = 3
    /\ hist[last.trial][3].score > hist[last.trial][1].score + es.delta
    /\ hist[last.trial][2].score <= hist[last.trial][1].score + es.delta
    /\ es.counter[last.trial] = 0
    /\ es.best_score[last.trial] = hist[last.trial][3].score

\* C6: a mode='min' policy fed x1..xn and a mode='max' policy with the same
\* patience and delta fed -x1..-xn return the same decision at every step
\* and hold the same best_score, counter and early_stop after every step.
C6_MirroredModesAgree ==
    /\ es.mode # mirror.mode
    /\ es.counter = mirror.counter
    /\ es.best_score = mirror.best_score
    /\ es.early_stop = mirror.early_stop
    /\ last.exc = mlast.exc
    /\ last.ret = mlast.ret

C6_Witness ==
    /\ last.op = "call"
    /\ mlast.op = "call"
    /\ es.mode = "min"
    /\ mirror.mode = "max"
    /\ last.ret
    /\ mlast.ret
    /\ last.result[es.monitor] = 1
    /\ mlast.result[es.monitor] = -1
    /\ \E t \in Trials : Tracked(t) /\ es.best_score[t] = 0
                            /\ mirror.counter[t] = 0

\* C7: a call whose result lacks the monitored metric raises (KeyError) and
\* returns no value, for a never-seen, a tracked and a stopped trial alike.
C7_MissingMetricRaises ==
    (last.op = "call" /\ es.monitor \notin DOMAIN last.result)
        => last.exc = "KeyError"

C7_Witness ==
    /\ last.op = "call"
    /\ es.monitor \notin DOMAIN last.result
    /\ last.exc = "KeyError"
    /\ Tracked(last.trial)
    /\ es.early_stop[last.trial]
    /\ \E t \in Trials : ~Tracked(t)

\* C8: EarlyStopping.stop_all returns false in every state, also when every
\* observed trial is stopped, and changes no per-trial state.
C8_StopAllFalse ==
    [][last'.op = "stop_all" =>
          /\ last'.exc = ""
          /\ last'.ret = FALSE
          /\ es' = es]_vars

C8_Witness ==
    /\ last.op = "stop_all"
    /\ ~last.ret
    /\ DOMAIN es.early_stop # {}
    /\ \A t \in DOMAIN es.early_stop : es.early_stop[t]

ExposesStopAll(fn) == fn.callable /\ fn.hasStopAll

\* C10 (as stated): no FunctionStopper ever holds a callable that exposes
\* stop_all, since constructing one fails.
C10_NoStopperHoldsPolicy ==
    \A i \in DOMAIN fs : ~ExposesStopAll(fs[i]._fn)

\* C10 (amended): the constructor accepts and stores any object without
\* failing; the rejection is made by is_valid_function, which raises
\* (ValueError) exactly for a callable that is not a Stopper instance and
\* has stop_all, and otherwise returns whether the object is a callable
\* that is not a Stopper instance.
C10_ValidationIsSeparate ==
    /\ last.op = "is_valid_function" =>
          LET fn == last.fn[1] IN
          /\ (last.exc = "ValueError") <=> (ExposesStopAll(fn) /\ ~fn.isStopper)
          /\ last.exc \in {"", "ValueError"}
          /\ last.exc = "" => (last.ret = (fn.callable /\ ~fn.isStopper))
    /\ last.op = "FunctionStopper.init" =>
          /\ last.exc = ""
          /\ fs = <<[_fn |-> last.fn[1]]>>

C10_Witness ==
    /\ last.op = "is_valid_function"
    /\ last.exc = "ValueError"
    /\ ExposesStopAll(last.fn[1])
    /\ fs # <<>>
    /\ ExposesStopAll(fs[1]._fn)

\* ---------------------------------------------------------------- C11..C19
\* the raw metric value whose normalized score is score
RawOf(self, score) == IF self.mode = "min" THEN -score ELSE score

\* a new instance with the settings of self
Fresh(self) ==
    EarlyStopping_init(self.patience, self.verbose, self.delta, self.monitor,
                       self.mode)

\* the instance and the decisions after the calls of trial t alone, one
\* after the other, on a new instance
RECURSIVE Alone(_, _, _)
Alone(self, t, h) ==
    IF h = <<>> THEN [self |-> Fresh(self), rets |-> <<>>]
    ELSE LET prev == Alone(self, t, SubSeq(h, 1, Len(h) - 1))
             r == EarlyStopping_call(prev.self, t,
                     [k \in {self.monitor} |-> RawOf(self, h[Len(h)].score)])
         IN [self |-> r.self, rets |-> Append(prev.rets, r.ret)]

\* trial t has the entry and the decisions it has when its calls run alone
AsAlone(t) ==
    LET a == Alone(es, t, hist[t]) IN
    /\ a.rets = [i \in 1..Len(hist[t]) |-> hist[t][i].ret]
    /\ hist[t] = <<>> =>
          /\ t \notin DOMAIN es.counter
          /\ t \notin DOMAIN es.best_score
          /\ t \notin DOMAIN es.early_stop
    /\ hist[t] # <<>> =>
          /\ t \in DOMAIN es.counter
          /\ t \in DOMAIN es.best_score
          /\ t \in DOMAIN es.early_stop
          /\ es.counter[t] = a.self.counter[t]
          /\ es.best_score[t] = a.self.best_score[t]
          /\ es.early_stop[t] = a.self.early_stop[t]

\* C11: with the statements of calls for different trials interleaved, each
\* trial (one caller, results in order) has, whenever its caller is between
\* calls, the best_score, counter, early_stop and decisions it has when its
\* calls run alone.
C11_InterleavedAsAlone ==
    \A t \in Trials : callers[t].pc = "idle" => AsAlone(t)

\* one trial was stopped by its second call while the caller of the other
\* is in the middle of creating its entry
C11_Witness ==
    \E t \in Trials, u \in Trials :
        /\ t # u
        /\ callers[t].pc = "idle"
        /\ Len(hist[t]) = 2
        /\ hist[t][2].ret
        /\ callers[u].pc = "init_best"
        /\ u \in DOMAIN es.counter
        /\ u \notin DOMAIN es.best_score

\* the best normalized score reported for a trial
RECURSIVE MaxScore(_)
MaxScore(h) ==
    IF Len(h) = 1 THEN h[1].score
    ELSE LET m == MaxScore(SubSeq(h, 1, Len(h) - 1)) IN
         IF h[Len(h)].score > m THEN h[Len(h)].score ELSE m

\* C12 (as stated): best_score of a tracked trial is the largest normalized
\* score reported for it, for every delta >= 0.
C12_BestIsMaxReported ==
    \A t \in Trials : Tracked(t) => es.best_score[t] = MaxScore(hist[t])

\* C12 (amended): best_score is never above the largest normalized score
\* reported for the trial and at most delta below it:
\* best_score <= largest <= best_score + delta; they are equal when delta
\* is 0.
C12_BestWithinDeltaOfMax ==
    \A t \in Trials : Tracked(t) =>
        /\ es.best_score[t] <= MaxScore(hist[t])
        /\ MaxScore(hist[t]) <= es.best_score[t] + es.delta
        /\ es.delta = 0 => es.best_score[t] = MaxScore(hist[t])

\* a result exactly delta above the best_score was reported and was not
\* taken as the new best_score
C12_Witness ==
    \E t \in Trials :
        /\ Tracked(t)
        /\ es.delta = 1
        /\ Len(hist[t]) >= 2
        /\ MaxScore(hist[t]) = es.best_score[t] + 1

\* C13: a call for a tracked trial leaves counter no smaller or makes it 0;
\* it makes it 0 exactly when the result is improving; a non-improving
\* result raises counter by exactly 1 and leaves best_score unchanged.
C13_CounterSteps ==
    [][\A t \in Trials :
         (Tracked(t) /\ CalledWith(t)) =>
            LET score == Normalized(es.mode, last'.result[es.monitor])
                improving == score > es.best_score[t] + es.delta IN
            /\ es'.counter[t] >= es.counter[t] \/ es'.counter[t] = 0
            /\ (es'.counter[t] = 0) <=> improving
            /\ ~improving =>
                  /\ es'.counter[t] = es.counter[t] + 1
                  /\ es'.best_score[t] = es.best_score[t]]_vars

\* two stalls in a row
C13_Witness ==
    /\ last.op = "call"
    /\ last.exc = ""
    /\ Len(hist[last.trial]) = 3
    /\ es.counter[last.trial] = 2
    /\ es.best_score[last.trial] = hist[last.trial][1].score

\* C14: the stall line is printed only when verbose is set; with verbose
\* false no call prints anything.
C14_PrintsOnlyWhenVerbose ==
    last.printed # <<>> => es.verbose

\* the trials that have had a call that returned
Reported == {t \in Trials : hist[t] # <<>>}

\* C15: the three dicts always hold exactly the trials that have had a call
\* that returned; an entry is never removed, and a later call for the trial
\* does not create it again (a stopped trial stays stopped, a non-improving
\* result counts on from the counter it found).
C15_EntriesCreatedOnce ==
    /\ [](/\ DOMAIN es.best_score = Reported
          /\ DOMAIN es.counter = Reported
          /\ DOMAIN es.early_stop = Reported)
    /\ [][/\ DOMAIN es.best_score \subseteq DOMAIN es'.best_score
          /\ \A t \in Trials :
               (Tracked(t) /\ CalledWith(t)) =>
                  LET score == Normalized(es.mode, last'.result[es.monitor])
                  IN /\ es.early_stop[t] => es'.early_stop[t]
                     /\ score <= es.best_score[t] + es.delta =>
                           es'.counter[t] = es.counter[t] + 1]_vars

C15_Witness ==
    /\ Reported = Trials
    /\ DOMAIN es.best_score = Trials
    /\ \E t \in Trials : Len(hist[t]) = 2 /\ es.counter[t] = 1

\* C16: for every tracked trial early_stop is true exactly when counter >=
\* patience, and counter never exceeds patience.
C16_StoppedIffPatienceReached ==
    \A t \in Trials : Tracked(t) =>
        /\ es.early_stop[t] <=> (es.counter[t] >= es.patience)
        /\ es.counter[t] <= es.patience

\* C17: a call that fails for a result without the monitored metric leaves
\* the whole policy state unchanged: no entry is created and every existing
\* entry keeps its values.
C17_FailedCallChangesNothing ==
    [][(last'.op = "call" /\ es.monitor \notin DOMAIN last'.result) =>
          /\ last'.exc # ""
          /\ es' = es
          /\ hist' = hist]_vars

\* a failed call for a trial never seen, next to a tracked trial
C17_Witness ==
    /\ last.op = "call"
    /\ last.exc = "KeyError"
    /\ ~Tracked(last.trial)
    /\ \E t \in Trials : Tracked(t) /\ es.counter[t] = 1

\* C18: a call for one trial leaves the entry of every other trial as it
\* is, and the decisions and entry of a trial are those of its own results
\* run alone, however the calls for other trials are ordered around them.
C18_OtherTrialsUntouched ==
    /\ [][last'.op = "call" =>
            \A b \in Trials \ {last'.trial} :
               /\ Tracked(b) <=> (b \in DOMAIN es'.best_score)
               /\ Tracked(b) =>
                     /\ es'.best_score[b] = es.best_score[b]
                     /\ es'.counter[b] = es.counter[b]
                     /\ es'.early_stop[b] = es.early_stop[b]]_vars
    /\ [](\A t \in Trials : AsAlone(t))

\* a stall of one trial, counted while the other trial is tracked too
C18_Witness ==
    \E b \in Trials \ {last.trial} :
        /\ last.op = "call"
        /\ last.printed # <<>>
        /\ Tracked(b)
        /\ Len(hist[b]) = 1
        /\ es.counter[b] = 0
        /\ es.counter[last.trial] = 1

\* C19: with delta >= 0 the best_score of a trial never decreases, and it
\* is always the normalized score of a result reported for that trial.
C19_BestMonotoneAndReported ==
    /\ [][\A t \in Trials :
            Tracked(t) => es'.best_score[t] >= es.best_score[t]]_vars
    /\ [](\A t \in Trials : Tracked(t) =>
            \E i \in 1..Len(hist[t]) : hist[t][i].score = es.best_score[t])

\* the best_score of a trial rose above its first score
C19_Witness ==
    \E t \in Trials :
        /\ Tracked(t)
        /\ Len(hist[t]) >= 2
        /\ es.best_score[t] > hist[t][1].score
        /\ es.best_score[t] = hist[t][Len(hist[t])].score

====
